---- MODULE Spec2Model ----
(***************************************************************************)
(* DUNA record store and the generate-contract pipeline.                   *)
(*                                                                         *)
(* The store is the 'dunaRecords' collection; a pipeline invocation is one *)
(* run of the POST /duna/:id/generate-contract handler, cut at its awaits: *)
(* findById, the LLM request, compilation, the deployment's submission and *)
(* confirmation, record.save() and the response.                           *)
(*                                                                         *)
(* The repository holds two contractService sources. "doc" is the one of   *)
(* the handler's own listing (compileContract with solc and the error      *)
(* filter, deployContract with its try/catch); "ts" is                     *)
(* services/contractService.ts (eth_compileSolidity over RPC, no filter,   *)
(* no catch). A behaviour is linked against one of them from the start.    *)
(***************************************************************************)
EXTENDS Integers, Sequences, FiniteSets, TLC

\* ------------------------------------------------------------------ bounds

\* Operations the clients issue in one behaviour: creations, updates,
\* deletions and invocations of the generate-contract handler together.
MaxOps == 3

\* The invocations (any number of them may be in flight together) and the
\* _id values the store assigns.
Reqs == 1..MaxOps
Oids == 1..MaxOps

\* Length of the texts the service functions are called with on their own.
MaxLen == 3

\* ------------------------------------------------------------------ texts

\* A text is a sequence of UTF-16 code units, the unit of String.split('').
\* "E" stands for U+00E9 (one code unit, two bytes of UTF-8); "H" and "L"
\* for the high and the low surrogate of a character outside the BMP.
CodeUnits == {"a", " ", "-", "E", "H", "L"}

WhiteSpace == {" "}

Empty == <<>>

RECURSIVE Reverse(_)
Reverse(s) == IF s = <<>> THEN <<>> ELSE Append(Reverse(Tail(s)), Head(s))

RECURSIVE TrimStart(_)
TrimStart(s) ==
    IF s # <<>> /\ Head(s) \in WhiteSpace THEN TrimStart(Tail(s)) ELSE s

\* String.prototype.trim
Trim(s) == Reverse(TrimStart(Reverse(TrimStart(s))))

\* obfuscateCode that moves the first code unit to the end.
obfuscateCodeRotated(code) ==
    IF code = <<>> THEN <<>> ELSE Append(Tail(code), Head(code))

\* utils/obfuscator.ts: code.split('').reverse().join('')
obfuscateCode(code) == Reverse(code)

\* record.name.replace(/\s+/g, '_'): each maximal run of white space becomes
\* one underscore, every other code unit is kept.
RECURSIVE ReplaceSpaceRuns(_)
ReplaceSpaceRuns(s) ==
    IF s = <<>> THEN <<>>
    ELSE IF Head(s) \in WhiteSpace
         THEN <<"_">> \o ReplaceSpaceRuns(TrimStart(s))
         ELSE <<Head(s)>> \o ReplaceSpaceRuns(Tail(s))

\* The contract name the prompt of generateContractSource asks for.
PromptContractName(name) == <<"D", "U", "N", "A", "_">> \o ReplaceSpaceRuns(name)

\* The texts of at most MaxLen code units.
TextsOfLength(n) == [1..n -> CodeUnits]
Texts == UNION {TextsOfLength(n) : n \in 0..MaxLen}

\* ---------------------------------------------------------------- records

NoDoc == [none |-> TRUE]

PipelineFields == {"contractGenerated", "contractSource", "contractAddress"}
Fields == {"id", "name"} \cup PipelineFields

\* Addresses: 0 is the empty string, n > 0 the address of the n-th
\* deployment transaction of the chain.
NoAddress == 0

\* models/DunaRecord.ts: the schema's defaults of the pipeline-state fields.
SchemaDefault(f) ==
    CASE f = "contractGenerated" -> FALSE
      [] f = "contractSource" -> Empty
      [] f = "contractAddress" -> NoAddress

\* new DunaRecord(body): the body's fields over the schema's defaults. Every
\* body names the record (name is required) and carries the id that
\* services/dunaService.ts filters on.
NewDocument(body) ==
    [f \in Fields |-> IF f \in DOMAIN body THEN body[f] ELSE SchemaDefault(f)]

\* { $set: partial }: the named fields replaced, the others kept.
SetFields(doc, partial) ==
    [f \in Fields |-> IF f \in DOMAIN partial THEN partial[f] ELSE doc[f]]

\* Request bodies of POST /duna (and arguments of createRecord).
Bodies ==
    { [id |-> "a", name |-> <<"A", " ", "C">>],
      [id |-> "a", name |-> <<"B">>, contractGenerated |-> TRUE],
      [id |-> "b", name |-> <<"B">>, contractSource |-> <<"x">>] }

\* Partial records given to updateRecord / updateDunaRecord.
Partials ==
    { [name |-> <<"B">>],
      [contractGenerated |-> FALSE],
      [contractGenerated |-> TRUE] }

\* ----------------------------------------------------------- environment

\* What the completion endpoint may answer in choices[0].text.
LLMTexts == { <<" ", "a", "b">>, <<"b", "a", " ">> }

\* The compiler's diagnostics: lists of severities.
Diagnostics == { <<>>, <<"warning">>, <<"error", "warning", "error">> }

\* The k-th contract the compiler emits for a source.
Contract(source, k) ==
    [abi |-> <<"abi", k>>, bytecode |-> [of |-> source, k |-> k]]

NoContract == [none |-> TRUE]

\* The contracts of a compiled unit, in the compiler's enumeration order.
ContractLists(source) ==
    { <<>>, <<Contract(source, 1)>>, <<Contract(source, 1), Contract(source, 2)>> }

\* Everything solc.compile / eth_compileSolidity may return for a source.
CompilerOutputs(source) ==
    [errors : Diagnostics, contracts : ContractLists(source)]

\* --------------------------------------------------------------- variables

VARIABLES
    store,      \* _id -> document, or NoDoc
    nextOid,    \* the next _id the store assigns
    ops,        \* operations the clients have issued so far
    impl,       \* which contractService source is linked: "ts" or "doc"
    reqs,       \* the handler invocations
    chain,      \* the deployment transactions, in submission order
    call        \* the service function called on its own, with its result

vars == <<store, nextOid, ops, impl, reqs, chain, call>>

NoCall == [fn |-> "none"]

NoBody == [none |-> TRUE]
NoWrite == [none |-> TRUE]

IdleReq ==
    [ pc |-> "idle",
      oid |-> 0,                 \* req.params.id
      lookup |-> "none",         \* findById: none, error, miss, generated, fresh
      record |-> NoDoc,          \* the document findById returned
      prompt |-> Empty,          \* the contract name the prompt asks for
      contractSource |-> Empty,
      compiled |-> NoContract,
      tx |-> 0,                  \* the submitted deployment transaction
      contractAddress |-> NoAddress,
      status |-> 0,              \* HTTP status sent, 0 while none
      body |-> NoBody,           \* the 200 response's body
      error |-> "",              \* what the handler's catch received
      responses |-> 0,           \* responses sent
      stages |-> <<>>,           \* stages started, in order
      llmCalls |-> 0,            \* requests posted to the completion endpoint
      compileCalls |-> 0,        \* compilations requested
      deployCalls |-> 0,         \* calls of factory.deploy()
      saved |-> NoWrite ]        \* the fields record.save() wrote, with values

Init ==
    /\ store = [o \in Oids |-> NoDoc]
    /\ nextOid = 1
    /\ ops = 0
    /\ impl \in {"ts", "doc"}
    /\ reqs = [q \in Reqs |-> IdleReq]
    /\ chain = <<>>
    /\ call = NoCall

\* ------------------------------------------------------------ record store

Present(o) == store[o] # NoDoc

\* The document a filter { id } matches: the first one in insertion order.
FirstMatch(id) ==
    LET hits == {o \in Oids : Present(o) /\ store[o].id = id}
    IN  IF hits = {} THEN 0 ELSE CHOOSE o \in hits : \A p \in hits : o <= p

\* POST /duna, createRecord, createDunaRecord: one document is inserted under
\* a fresh _id.
CreateRecord(body) ==
    /\ ops < MaxOps
    /\ ops' = ops + 1
    /\ store' = [store EXCEPT ![nextOid] = NewDocument(body)]
    /\ nextOid' = nextOid + 1
    /\ UNCHANGED <<call, impl, reqs, chain>>

\* updateRecord that replaces the document: the pipeline-state fields the
\* partial record does not name fall back to their defaults.
updateRecordReplacing(id, partial) ==
    /\ ops < MaxOps
    /\ ops' = ops + 1
    /\ LET o == FirstMatch(id)
       IN  store' = IF o = 0 THEN store
                    ELSE [store EXCEPT ![o] =
                            [f \in Fields |->
                                IF f \in DOMAIN partial THEN partial[f]
                                ELSE IF f \in PipelineFields THEN SchemaDefault(f)
                                ELSE store[o][f]]]
    /\ UNCHANGED <<call, nextOid, impl, reqs, chain>>

\* services/dunaService.ts updateRecord: updateOne({ id }, { $set: partial }).
updateRecord(id, partial) ==
    /\ ops < MaxOps
    /\ ops' = ops + 1
    /\ LET o == FirstMatch(id)
       IN  store' = IF o = 0 THEN store
                    ELSE [store EXCEPT ![o] = SetFields(store[o], partial)]
    /\ UNCHANGED <<call, nextOid, impl, reqs, chain>>

\* updateDunaRecord: findByIdAndUpdate(id, data).
updateDunaRecord(o, data) ==
    /\ ops < MaxOps
    /\ ops' = ops + 1
    /\ store' = IF Present(o)
                THEN [store EXCEPT ![o] = SetFields(store[o], data)]
                ELSE store
    /\ UNCHANGED <<call, nextOid, impl, reqs, chain>>

\* services/dunaService.ts deleteRecord: deleteOne({ id }).
deleteRecord(id) ==
    /\ ops < MaxOps
    /\ ops' = ops + 1
    /\ LET o == FirstMatch(id)
       IN  store' = IF o = 0 THEN store ELSE [store EXCEPT ![o] = NoDoc]
    /\ UNCHANGED <<call, nextOid, impl, reqs, chain>>

\* deleteDunaRecord: findByIdAndDelete(id).
deleteDunaRecord(o) ==
    /\ ops < MaxOps
    /\ ops' = ops + 1
    /\ store' = [store EXCEPT ![o] = NoDoc]
    /\ UNCHANGED <<call, nextOid, impl, reqs, chain>>

\* ---------------------------------------------------------------- pipeline

\* The handler ends: one response is sent, and its locals go out of scope.
Responded(r, status, error) ==
    [r EXCEPT !.pc = "done", !.status = status, !.error = error,
              !.responses = r.responses + 1,
              !.record = NoDoc, !.prompt = Empty, !.contractSource = Empty,
              !.compiled = NoContract, !.contractAddress = NoAddress]

\* The catch block of the handler: log, then 500.
Caught(r, error) == Responded(r, 500, error)

\* Slots are taken in order (they are interchangeable).
MayStart(q) ==
    /\ ops < MaxOps
    /\ reqs[q].pc = "idle"
    /\ IF q = 1 THEN TRUE ELSE reqs[q - 1].pc # "idle"

\* What findById resolved to.
LookupResult(doc) ==
    IF doc = NoDoc THEN "miss"
    ELSE IF doc.contractGenerated THEN "generated" ELSE "fresh"

Found(r, o, doc) == [r EXCEPT !.oid = o, !.lookup = LookupResult(doc)]

\* AfterLookup without the already-generated guard.
AfterLookupNoGuard(r, o, doc) ==
    IF doc = NoDoc
    THEN Responded(Found(r, o, doc), 404, "")
    ELSE [Found(r, o, doc) EXCEPT !.record = doc, !.pc = "generate"]

\* AfterLookup with the two early statuses exchanged.
AfterLookupSwapped(r, o, doc) ==
    IF doc = NoDoc
    THEN Responded(Found(r, o, doc), 400, "")
    ELSE IF doc.contractGenerated
    THEN Responded(Found(r, o, doc), 404, "")
    ELSE [Found(r, o, doc) EXCEPT !.record = doc, !.pc = "generate"]

\* AfterLookup whose 404 branch does not return: the handler goes on, reads
\* a field of null, and its catch block answers a second time.
AfterLookupFallThrough(r, o, doc) ==
    IF doc = NoDoc
    THEN Caught(Responded(Found(r, o, doc), 404, ""), "TypeError")
    ELSE IF doc.contractGenerated
    THEN Responded(Found(r, o, doc), 400, "")
    ELSE [Found(r, o, doc) EXCEPT !.record = doc, !.pc = "generate"]

\* What the handler does with findById's answer: 404 on null, 400 on a
\* record already generated, otherwise on to generation.
AfterLookup(r, o, doc) ==
    IF doc = NoDoc
    THEN Responded(Found(r, o, doc), 404, "")
    ELSE IF doc.contractGenerated
    THEN Responded(Found(r, o, doc), 400, "")
    ELSE [Found(r, o, doc) EXCEPT !.record = doc, !.pc = "generate"]

\* POST /:id/generate-contract, to the end of `await DunaRecord.findById`.
Lookup(q, o) ==
    /\ MayStart(q)
    /\ ops' = ops + 1
    /\ reqs' = [reqs EXCEPT ![q] = AfterLookup(reqs[q], o, store[o])]
    /\ UNCHANGED <<call, store, nextOid, impl, chain>>

\* findById rejects (the storage call fails): the catch block answers.
LookupFails(q, o) ==
    /\ MayStart(q)
    /\ reqs' = [reqs EXCEPT ![q] =
                  Caught([reqs[q] EXCEPT !.oid = o, !.lookup = "error"], "lookup")]
    /\ ops' = ops + 1
    /\ UNCHANGED <<call, store, nextOid, impl, chain>>

\* generateContractSource up to the request: the prompt is built and posted.
Prompted(r) ==
    [r EXCEPT !.prompt = PromptContractName(r.record.name),
              !.stages = r.stages \o <<"prompt", "generate">>,
              !.llmCalls = r.llmCalls + 1]

\* generateContractSource, the endpoint answered with choices[0].text = text:
\* trimmed, obfuscated, returned.
GenerateOk(q, text) ==
    /\ reqs[q].pc = "generate"
    /\ reqs' = [reqs EXCEPT ![q] =
                  [Prompted(reqs[q]) EXCEPT
                      !.contractSource = obfuscateCode(Trim(text)),
                      !.stages = @ \o <<"transform">>,
                      !.pc = "compile"]]
    /\ UNCHANGED <<call, store, nextOid, ops, impl, chain>>

\* The ways the completion request fails.
GenerationFailures == {"network", "non-2xx", "malformed"}

\* GenerateFails that sends the request again instead of giving up.
GenerateFailsRetried(q, cause) ==
    /\ reqs[q].pc = "generate"
    /\ reqs' = [reqs EXCEPT ![q] = [reqs[q] EXCEPT !.llmCalls = @ + 1]]
    /\ UNCHANGED <<call, store, nextOid, ops, impl, chain>>

\* generateContractSource, the request failed: every cause is caught, logged
\* and rethrown as one error.
GenerateFails(q, cause) ==
    /\ reqs[q].pc = "generate"
    /\ reqs' = [reqs EXCEPT ![q] =
                  Caught(Prompted(reqs[q]), "Failed to generate contract source")]
    /\ UNCHANGED <<call, store, nextOid, ops, impl, chain>>

\* output.errors.filter(err => err.severity === 'error')
RECURSIVE ErrorsOf(_)
ErrorsOf(diags) ==
    IF diags = <<>> THEN <<>>
    ELSE IF Head(diags) = "error"
         THEN <<"error">> \o ErrorsOf(Tail(diags))
         ELSE ErrorsOf(Tail(diags))

\* compileContract (solc, with the error filter) and the first half of
\* services/contractService.ts compileAndDeployContract (no filter): the
\* first contract of the unit, or the error thrown. The error thrown is a
\* bare Error: no diagnostic is attached to it; compileContract writes the
\* filtered ones to the log.
CompileResult(variant, out) ==
    IF variant = "doc" /\ ErrorsOf(out.errors) # <<>>
    THEN [ok |-> FALSE, contract |-> NoContract,
          error |-> "Contract compilation failed",
          attached |-> <<>>, logged |-> ErrorsOf(out.errors)]
    ELSE IF out.contracts = <<>>
    THEN [ok |-> FALSE, contract |-> NoContract, error |-> "TypeError",
          attached |-> <<>>, logged |-> <<>>]
    ELSE [ok |-> TRUE, contract |-> out.contracts[1], error |-> "",
          attached |-> <<>>, logged |-> <<>>]

\* Compile that hands the compiler the source with the transform undone.
CompileDeobfuscated(q) ==
    /\ reqs[q].pc = "compile"
    /\ \E out \in CompilerOutputs(obfuscateCode(reqs[q].contractSource)) :
          LET r == [reqs[q] EXCEPT !.stages = @ \o <<"compile">>,
                                   !.compileCalls = @ + 1]
              c == CompileResult(impl, out)
          IN  reqs' = [reqs EXCEPT ![q] =
                         IF c.ok
                         THEN [r EXCEPT !.compiled = c.contract, !.pc = "deploy"]
                         ELSE Caught(r, c.error)]
    /\ UNCHANGED <<call, store, nextOid, ops, impl, chain>>

\* compileAndDeployContract, the compilation: the compiler answers some
\* output for the source, and the handler goes on or ends by what it holds.
Compile(q) ==
    /\ reqs[q].pc = "compile"
    /\ \E out \in CompilerOutputs(reqs[q].contractSource) :
          LET r == [reqs[q] EXCEPT !.stages = @ \o <<"compile">>,
                                   !.compileCalls = @ + 1]
              c == CompileResult(impl, out)
          IN  reqs' = [reqs EXCEPT ![q] =
                         IF c.ok
                         THEN [r EXCEPT !.compiled = c.contract, !.pc = "deploy"]
                         ELSE Caught(r, c.error)]
    /\ UNCHANGED <<call, store, nextOid, ops, impl, chain>>

\* services/contractService.ts: provider.send('eth_compileSolidity') rejects.
CompileRpcFails(q) ==
    /\ reqs[q].pc = "compile"
    /\ impl = "ts"
    /\ reqs' = [reqs EXCEPT ![q] =
                  Caught([reqs[q] EXCEPT !.stages = @ \o <<"compile">>,
                                         !.compileCalls = @ + 1],
                         "rpc")]
    /\ UNCHANGED <<call, store, nextOid, ops, impl, chain>>

\* What reaches the caller when factory.deploy() or the confirmation wait
\* throws: deployContract rethrows a fixed error, contractService.ts lets the
\* cause through.
DeployError(variant, cause) ==
    IF variant = "doc" THEN "Failed to deploy contract" ELSE cause

\* DeploySubmit that submits the transaction a second time.
DeploySubmitTwice(q) ==
    /\ reqs[q].pc = "deploy"
    /\ LET t == [by |-> q, oid |-> reqs[q].oid,
                 code |-> reqs[q].compiled.bytecode, state |-> "pending"]
       IN  chain' = chain \o <<t, t>>
    /\ reqs' = [reqs EXCEPT ![q] =
                  [reqs[q] EXCEPT !.stages = @ \o <<"deploy">>,
                                  !.deployCalls = @ + 2,
                                  !.tx = Len(chain) + 2,
                                  !.pc = "confirm"]]
    /\ UNCHANGED <<call, store, nextOid, ops, impl>>

\* DeploySubmit under a lock per record: a transaction is submitted only
\* while no other one was submitted on behalf of the record.
DeploySubmitLocked(q) ==
    /\ reqs[q].pc = "deploy"
    /\ \A i \in DOMAIN chain : chain[i].oid # reqs[q].oid
    /\ chain' = Append(chain, [by |-> q, oid |-> reqs[q].oid,
                               code |-> reqs[q].compiled.bytecode,
                               state |-> "pending"])
    /\ reqs' = [reqs EXCEPT ![q] =
                  [reqs[q] EXCEPT !.stages = @ \o <<"deploy">>,
                                  !.deployCalls = @ + 1,
                                  !.tx = Len(chain) + 1,
                                  !.pc = "confirm"]]
    /\ UNCHANGED <<call, store, nextOid, ops, impl>>

\* DeployConfirmFails by a timeout: the wait is given up while the
\* transaction is still pending.
DeployConfirmTimesOut(q) ==
    /\ reqs[q].pc = "confirm"
    /\ reqs' = [reqs EXCEPT ![q] = Caught(reqs[q], DeployError(impl, "confirm"))]
    /\ UNCHANGED <<call, store, nextOid, ops, impl, chain>>

\* factory.deploy(): the deployment transaction is submitted.
DeploySubmit(q) ==
    /\ reqs[q].pc = "deploy"
    /\ chain' = Append(chain, [by |-> q, oid |-> reqs[q].oid,
                               code |-> reqs[q].compiled.bytecode,
                               state |-> "pending"])
    /\ reqs' = [reqs EXCEPT ![q] =
                  [reqs[q] EXCEPT !.stages = @ \o <<"deploy">>,
                                  !.deployCalls = @ + 1,
                                  !.tx = Len(chain) + 1,
                                  !.pc = "confirm"]]
    /\ UNCHANGED <<call, store, nextOid, ops, impl>>

\* factory.deploy() throws: nothing was submitted.
DeploySubmitFails(q) ==
    /\ reqs[q].pc = "deploy"
    /\ reqs' = [reqs EXCEPT ![q] =
                  Caught([reqs[q] EXCEPT !.stages = @ \o <<"deploy">>,
                                         !.deployCalls = @ + 1],
                         DeployError(impl, "submit"))]
    /\ UNCHANGED <<call, store, nextOid, ops, impl, chain>>

\* Assigned without the assignment of the address.
AssignedNoAddress(record, source, address) ==
    [record EXCEPT !.contractGenerated = TRUE, !.contractSource = source]

\* The three assignments of the handler, on the in-memory document.
Assigned(record, source, address) ==
    [record EXCEPT !.contractGenerated = TRUE,
                   !.contractSource = source,
                   !.contractAddress = address]

\* DeployConfirm without the wait: the address is read and returned while
\* the transaction is still pending.
DeployConfirmNotAwaited(q) ==
    /\ reqs[q].pc = "confirm"
    /\ reqs' = [reqs EXCEPT ![q] =
                  [reqs[q] EXCEPT
                      !.contractAddress = reqs[q].tx,
                      !.record = Assigned(@, reqs[q].contractSource, reqs[q].tx),
                      !.stages = @ \o <<"write">>,
                      !.pc = "save"]]
    /\ UNCHANGED <<call, store, nextOid, ops, impl, chain>>

\* contract.deployed() / waitForDeployment() resolves; the address is read,
\* returned to the handler, which assigns the three fields and calls save().
DeployConfirm(q) ==
    /\ reqs[q].pc = "confirm"
    /\ chain' = [chain EXCEPT ![reqs[q].tx].state = "confirmed"]
    /\ reqs' = [reqs EXCEPT ![q] =
                  [reqs[q] EXCEPT
                      !.contractAddress = reqs[q].tx,
                      !.record = Assigned(@, reqs[q].contractSource, reqs[q].tx),
                      !.stages = @ \o <<"write">>,
                      !.pc = "save"]]
    /\ UNCHANGED <<call, store, nextOid, ops, impl>>

\* DeployConfirmFails with the error swallowed: the handler goes on to the
\* write-back with the address of the failed transaction.
DeployConfirmFailsSwallowed(q) ==
    /\ reqs[q].pc = "confirm"
    /\ chain' = [chain EXCEPT ![reqs[q].tx].state = "failed"]
    /\ reqs' = [reqs EXCEPT ![q] =
                  [reqs[q] EXCEPT
                      !.contractAddress = reqs[q].tx,
                      !.record = [@ EXCEPT !.contractGenerated = TRUE,
                                           !.contractSource = reqs[q].contractSource,
                                           !.contractAddress = reqs[q].tx],
                      !.stages = @ \o <<"write">>,
                      !.pc = "save"]]
    /\ UNCHANGED <<call, store, nextOid, ops, impl>>

\* The confirmation wait throws (the transaction failed).
DeployConfirmFails(q) ==
    /\ reqs[q].pc = "confirm"
    /\ chain' = [chain EXCEPT ![reqs[q].tx].state = "failed"]
    /\ reqs' = [reqs EXCEPT ![q] = Caught(reqs[q], DeployError(impl, "confirm"))]
    /\ UNCHANGED <<call, store, nextOid, ops, impl>>

\* SavedFields without the source.
SavedFieldsNoSource(record) ==
    [f \in {"contractGenerated", "contractAddress"} |-> record[f]]

\* SavedFields without the address.
SavedFieldsNoAddress(record) ==
    [f \in {"contractGenerated", "contractSource"} |-> record[f]]

\* The paths record.save() sends: the ones the handler assigned.
SavedFields(record) == [f \in PipelineFields |-> record[f]]

\* Save that writes the whole in-memory document over the stored one.
SaveWholeDocument(q) ==
    /\ reqs[q].pc = "save"
    /\ Present(reqs[q].oid)
    /\ store' = [store EXCEPT ![reqs[q].oid] = reqs[q].record]
    /\ reqs' = [reqs EXCEPT ![q] =
                  [reqs[q] EXCEPT !.saved = SavedFields(reqs[q].record),
                                  !.pc = "respond"]]
    /\ UNCHANGED <<call, nextOid, ops, impl, chain>>

\* Save not awaited: the handler goes on to the response before the write.
SaveNotAwaited(q) ==
    /\ reqs[q].pc = "save"
    /\ Present(reqs[q].oid)
    /\ reqs' = [reqs EXCEPT ![q] = [reqs[q] EXCEPT !.pc = "respond"]]
    /\ UNCHANGED <<call, store, nextOid, ops, impl, chain>>

\* record.save() succeeds: one update of the stored document.
Save(q) ==
    /\ reqs[q].pc = "save"
    /\ Present(reqs[q].oid)
    /\ store' = [store EXCEPT ![reqs[q].oid] =
                    SetFields(@, SavedFields(reqs[q].record))]
    /\ reqs' = [reqs EXCEPT ![q] =
                  [reqs[q] EXCEPT !.saved = SavedFields(reqs[q].record),
                                  !.pc = "respond"]]
    /\ UNCHANGED <<call, nextOid, ops, impl, chain>>

\* record.save() rejects: the storage call fails, or the document is gone.
SaveFails(q) ==
    /\ reqs[q].pc = "save"
    /\ reqs' = [reqs EXCEPT ![q] = Caught(reqs[q], "save")]
    /\ UNCHANGED <<call, store, nextOid, ops, impl, chain>>

\* res.json({ message, contractAddress, contractSource })
ResponseBody(r) ==
    [contractAddress |-> r.contractAddress, contractSource |-> r.contractSource]

Respond(q) ==
    /\ reqs[q].pc = "respond"
    /\ reqs' = [reqs EXCEPT ![q] =
                  [Responded(reqs[q], 200, "") EXCEPT !.body = ResponseBody(reqs[q])]]
    /\ UNCHANGED <<call, store, nextOid, ops, impl, chain>>

\* ------------------------------------------------------------ specification

UserIds == {"a", "b"}

Next ==
    \/ \E body \in Bodies : CreateRecord(body)
    \/ \E id \in UserIds, partial \in Partials : updateRecord(id, partial)
    \/ \E o \in Oids, data \in Partials : updateDunaRecord(o, data)
    \/ \E id \in UserIds : deleteRecord(id)
    \/ \E o \in Oids : deleteDunaRecord(o)
    \/ \E q \in Reqs, o \in Oids : Lookup(q, o)
    \/ \E q \in Reqs, o \in Oids : LookupFails(q, o)
    \/ \E q \in Reqs, text \in LLMTexts : GenerateOk(q, text)
    \/ \E q \in Reqs, cause \in GenerationFailures : GenerateFails(q, cause)
    \/ \E q \in Reqs : Compile(q)
    \/ \E q \in Reqs : CompileRpcFails(q)
    \/ \E q \in Reqs : DeploySubmit(q)
    \/ \E q \in Reqs : DeploySubmitFails(q)
    \/ \E q \in Reqs : DeployConfirm(q)
    \/ \E q \in Reqs : DeployConfirmFails(q)
    \/ \E q \in Reqs : Save(q)
    \/ \E q \in Reqs : SaveFails(q)
    \/ \E q \in Reqs : Respond(q)

Spec == Init /\ [][Next]_vars

\* ------------------------------------------------- the services on their own

\* One behaviour of ServiceSpec is one call of one exported function with
\* one argument (obfuscateCode may then be called on its own result).

\* Record names the prompt builders are given.
AlphaCo == <<"A", "l", "p", "h", "a", " ", "C", "o">>
Names == Texts \cup {AlphaCo}

\* utils/obfuscator.ts obfuscateCode(code), called once.
CallObfuscateCode(code) ==
    /\ call = NoCall
    /\ call' = [fn |-> "obfuscateCode", arg |-> code,
                result |-> obfuscateCode(code), times |-> 1]
    /\ UNCHANGED <<store, nextOid, ops, impl, reqs, chain>>

\* obfuscateCode called on what obfuscateCode returned.
CallObfuscateCodeAgain ==
    /\ call.fn = "obfuscateCode"
    /\ call.times = 1
    /\ call' = [call EXCEPT !.result = obfuscateCode(@), !.times = 2]
    /\ UNCHANGED <<store, nextOid, ops, impl, reqs, chain>>

\* generateContractSource, the contract name its prompt asks for.
CallPromptContractName(name) ==
    /\ call = NoCall
    /\ call' = [fn |-> "prompt", arg |-> name,
                result |-> PromptContractName(name)]
    /\ UNCHANGED <<store, nextOid, ops, impl, reqs, chain>>

\* The sources generateContractSource hands to the compiler.
Sources == {obfuscateCode(Trim(text)) : text \in LLMTexts}

\* compileContract(source) / the compilation of services/contractService.ts,
\* the compiler answering out.
CallCompile(source) ==
    /\ call = NoCall
    /\ \E out \in CompilerOutputs(source) :
          call' = [fn |-> "compile", arg |-> out,
                   result |-> CompileResult(impl, out)]
    /\ UNCHANGED <<store, nextOid, ops, impl, reqs, chain>>

\* What axios.post comes to: the request fails, the status is outside 2xx
\* (axios rejects), or a 2xx body arrives: without choices, with a first
\* choice that has no text, or with a text.
Responses ==
    { [kind |-> "network", shape |-> "none", text |-> Empty],
      [kind |-> "non-2xx", shape |-> "none", text |-> Empty],
      [kind |-> "2xx", shape |-> "no-choices", text |-> Empty],
      [kind |-> "2xx", shape |-> "no-text", text |-> Empty] }
    \cup { [kind |-> "2xx", shape |-> "text", text |-> t] : t \in LLMTexts }

\* services/llmService.ts of the listing: request, read, trim and obfuscate
\* inside one try; the catch replaces whatever was thrown (a rejected
\* request, a TypeError on a missing choice or text) by one error.
generateContractSource(response) ==
    IF response.kind = "2xx" /\ response.shape = "text"
    THEN [ok |-> TRUE, defined |-> TRUE,
          text |-> obfuscateCode(Trim(response.text)), error |-> ""]
    ELSE [ok |-> FALSE, defined |-> FALSE, text |-> Empty,
          error |-> "Failed to generate contract source"]

\* generateSolidityCode: no try, the text returned as read. A rejected
\* request throws axios's error, a body without choices a TypeError; a
\* first choice without text makes the function return undefined.
generateSolidityCode(response) ==
    IF response.kind # "2xx"
    THEN [ok |-> FALSE, defined |-> FALSE, text |-> Empty,
          error |-> "AxiosError"]
    ELSE IF response.shape = "no-choices"
    THEN [ok |-> FALSE, defined |-> FALSE, text |-> Empty,
          error |-> "TypeError"]
    ELSE IF response.shape = "no-text"
    THEN [ok |-> TRUE, defined |-> FALSE, text |-> Empty, error |-> ""]
    ELSE [ok |-> TRUE, defined |-> TRUE, text |-> response.text, error |-> ""]

CallGenerateContractSource(response) ==
    /\ call = NoCall
    /\ call' = [fn |-> "generateContractSource", arg |-> response,
                result |-> generateContractSource(response)]
    /\ UNCHANGED <<store, nextOid, ops, impl, reqs, chain>>

CallGenerateSolidityCode(response) ==
    /\ call = NoCall
    /\ call' = [fn |-> "generateSolidityCode", arg |-> response,
                result |-> generateSolidityCode(response)]
    /\ UNCHANGED <<store, nextOid, ops, impl, reqs, chain>>

ServiceNext ==
    \/ \E code \in Texts : CallObfuscateCode(code)
    \/ CallObfuscateCodeAgain
    \/ \E name \in Names : CallPromptContractName(name)
    \/ \E source \in Sources : CallCompile(source)
    \/ \E response \in Responses : CallGenerateContractSource(response)
    \/ \E response \in Responses : CallGenerateSolidityCode(response)

ServiceSpec == Init /\ [][ServiceNext]_vars

\* ------------------------------------------- the record routes and services

\* The _id values of the stored documents from o on, in insertion order.
RECURSIVE StoredFrom(_, _)
StoredFrom(o, docs) ==
    IF o \notin Oids THEN <<>>
    ELSE (IF docs[o] = NoDoc THEN <<>> ELSE <<o>>) \o StoredFrom(o + 1, docs)

\* find() that stops after the first document.
FindFirstOnly(docs) ==
    LET oids == StoredFrom(1, docs)
    IN  IF oids = <<>> THEN <<>>
        ELSE <<[_id |-> oids[1], fields |-> docs[oids[1]]]>>

\* collection('dunaRecords').find().toArray(): every stored document, with
\* its _id.
Find(docs) ==
    LET oids == StoredFrom(1, docs)
    IN  [i \in 1..Len(oids) |-> [_id |-> oids[i], fields |-> docs[oids[i]]]]

\* services/dunaService.ts getRecords: of each document the listed fields
\* (of the ones modelled, id and name).
Projected(found) ==
    [i \in 1..Len(found) |->
        [id |-> found[i].fields.id, name |-> found[i].fields.name]]

HttpRoutes == {"GET /duna", "POST /duna"}

\* The previous request or call is over, or there was none.
Settled == IF call = NoCall THEN TRUE ELSE call.pc \in {"answered", "returned"}

\* A request to one of the routes is suspended in its storage call.
Awaiting(routes) ==
    IF call = NoCall THEN FALSE ELSE call.fn \in routes /\ call.pc = "await"

Request(route, body) ==
    [fn |-> route, pc |-> "await", arg |-> body,
     status |-> 0, responses |-> 0, result |-> <<>>]

Answered(request, status, result) ==
    [request EXCEPT !.pc = "answered", !.status = status,
                    !.responses = @ + 1, !.result = result]

\* GET /duna up to `await ...find().toArray()`.
GetDunaReceived ==
    /\ Settled
    /\ ops < MaxOps
    /\ ops' = ops + 1
    /\ call' = Request("GET /duna", NoBody)
    /\ UNCHANGED <<store, nextOid, impl, reqs, chain>>

\* toArray() resolves: res.json(records).
GetDunaResolves ==
    /\ Awaiting({"GET /duna"})
    /\ call' = Answered(call, 200, Find(store))
    /\ UNCHANGED <<store, nextOid, ops, impl, reqs, chain>>

\* POST /duna up to `await ...insertOne(newRecord)`.
PostDunaReceived(body) ==
    /\ Settled
    /\ ops < MaxOps
    /\ ops' = ops + 1
    /\ call' = Request("POST /duna", body)
    /\ UNCHANGED <<store, nextOid, impl, reqs, chain>>

\* insertOne resolves: res.status(201).json(newRecord).
PostDunaInserts ==
    /\ Awaiting({"POST /duna"})
    /\ store' = [store EXCEPT ![nextOid] = NewDocument(call.arg)]
    /\ nextOid' = nextOid + 1
    /\ call' = Answered(call, 201, <<call.arg>>)
    /\ UNCHANGED <<ops, impl, reqs, chain>>

\* The awaited storage call rejects. The handlers are async functions
\* without a try: the rejection leaves them as a rejected promise. Under
\* Express 4 nothing observes that promise and no response is ever sent.
StorageRejectsUnanswered ==
    /\ Awaiting(HttpRoutes)
    /\ call' = [call EXCEPT !.pc = "unanswered"]
    /\ UNCHANGED <<store, nextOid, ops, impl, reqs, chain>>

\* The same under Express 5, which passes the rejection to the error
\* handler: the default one answers 500.
StorageRejectsForwarded ==
    /\ Awaiting(HttpRoutes)
    /\ call' = Answered(call, 500, <<>>)
    /\ UNCHANGED <<store, nextOid, ops, impl, reqs, chain>>

\* services/dunaService.ts getRecords, the storage call resolving.
CallGetRecords ==
    /\ Settled
    /\ ops < MaxOps
    /\ ops' = ops + 1
    /\ call' = [Request("getRecords", NoBody) EXCEPT
                    !.pc = "returned", !.result = Projected(Find(store))]
    /\ UNCHANGED <<store, nextOid, impl, reqs, chain>>

StorageSettles ==
    \/ GetDunaResolves
    \/ PostDunaInserts
    \/ StorageRejectsUnanswered
    \/ StorageRejectsForwarded

StoreNext ==
    \/ \E body \in Bodies : CreateRecord(body)
    \/ \E id \in UserIds, partial \in Partials : updateRecord(id, partial)
    \/ \E id \in UserIds : deleteRecord(id)
    \/ GetDunaReceived
    \/ GetDunaResolves
    \/ \E body \in Bodies : PostDunaReceived(body)
    \/ PostDunaInserts
    \/ StorageRejectsUnanswered
    \/ StorageRejectsForwarded
    \/ CallGetRecords

\* A storage call that was issued settles: it resolves or it rejects.
StoreSpec == Init /\ [][StoreNext]_vars /\ WF_vars(StorageSettles)

\* -------------------------------------------------------------- properties

ErrorStatuses == {400, 404, 500}

IsPrefix(s, t) == Len(s) <= Len(t) /\ \A i \in 1..Len(s) : s[i] = t[i]

StageOrder == <<"prompt", "generate", "transform", "compile", "deploy", "write">>

Started(r, stage) == \E i \in 1..Len(r.stages) : r.stages[i] = stage

GenerationErrors == {"Failed to generate contract source"}
CompilationErrors == {"Contract compilation failed", "TypeError", "rpc"}
DeploymentErrors == {"Failed to deploy contract", "submit", "confirm"}

\* The deployment transactions submitted on behalf of record o.
DeploymentsFor(o) == {i \in DOMAIN chain : chain[i].oid = o}

\* C1: every step of an invocation either leaves the store as it is or is
\* the one write-back, which sets contractGenerated, contractSource and
\* contractAddress of the invocation's record together (to true, the run's
\* source and the run's address) and touches nothing else; an invocation
\* that answers an error has written nothing, one that answers success has
\* written all three fields.
C1_AtomicWriteBack ==
    [][\A q \in Reqs :
          LET r == reqs[q]
              n == reqs'[q]
              o == r.oid
          IN  n # r =>
                /\ \/ store' = store
                   \/ /\ r.pc = "save" /\ n.pc = "respond"
                      /\ Present(o) /\ store'[o] # NoDoc
                      /\ store'[o].contractGenerated = TRUE
                      /\ store'[o].contractSource = r.contractSource
                      /\ store'[o].contractAddress = r.contractAddress
                      /\ \A f \in Fields \ PipelineFields :
                            store'[o][f] = store[o][f]
                      /\ \A p \in Oids \ {o} : store'[p] = store[p]
                /\ n.status \in ErrorStatuses =>
                      store' = store /\ n.saved = NoWrite
                /\ n.status = 200 => DOMAIN n.saved = PipelineFields]_vars

\* One invocation has written back and answered 200 while another one, whose
\* deployment was confirmed, failed in save() and answered 500.
C1_Witness ==
    \E q, p \in Reqs :
        /\ reqs[q].status = 200 /\ reqs[q].saved # NoWrite
        /\ reqs[p].status = 500 /\ reqs[p].error = "save"

\* C2: every stored record has contractGenerated true exactly when its
\* contractSource and its contractAddress are both non-empty.
C2_GeneratedIffSourceAndAddress ==
    \A o \in Oids :
        Present(o) =>
            (store[o].contractGenerated <=>
                (store[o].contractSource # Empty
                    /\ store[o].contractAddress # NoAddress))

\* C3: no step turns contractGenerated of a record that still exists from
\* true to false.
C3_FlagNeverReset ==
    [][\A o \in Oids :
          (Present(o) /\ store[o].contractGenerated /\ store'[o] # NoDoc)
              => store'[o].contractGenerated]_vars

\* C4: an invocation whose lookup returned a record with contractGenerated
\* true has answered 400 and has made no call to the generation endpoint,
\* the compiler or the chain, started no stage and written nothing.
C4_AlreadyGeneratedRejected ==
    \A q \in Reqs :
        reqs[q].lookup = "generated" =>
            /\ reqs[q].pc = "done" /\ reqs[q].status = 400
            /\ reqs[q].llmCalls = 0 /\ reqs[q].compileCalls = 0
            /\ reqs[q].deployCalls = 0 /\ reqs[q].stages = <<>>
            /\ reqs[q].saved = NoWrite
            /\ \A i \in DOMAIN chain : chain[i].by # q

\* A second invocation on a record that a first one generated is rejected.
C4_Witness ==
    \E q, p \in Reqs :
        /\ q # p /\ reqs[q].oid = reqs[p].oid
        /\ reqs[q].status = 200
        /\ reqs[p].lookup = "generated" /\ reqs[p].status = 400

\* C5: an invocation whose lookup found no record has answered 404 and has
\* made no call to the generation endpoint, the compiler or the chain,
\* started no stage and written nothing.
C5_NotFoundBeforeAnyCall ==
    \A q \in Reqs :
        reqs[q].lookup = "miss" =>
            /\ reqs[q].pc = "done" /\ reqs[q].status = 404
            /\ reqs[q].llmCalls = 0 /\ reqs[q].compileCalls = 0
            /\ reqs[q].deployCalls = 0 /\ reqs[q].stages = <<>>
            /\ reqs[q].saved = NoWrite
            /\ \A i \in DOMAIN chain : chain[i].by # q

\* An invocation for an identifier no document has, while the store holds
\* another document.
C5_Witness ==
    \E q \in Reqs :
        /\ reqs[q].lookup = "miss" /\ reqs[q].status = 404
        /\ ~Present(reqs[q].oid)
        /\ \E o \in Oids : Present(o)

\* C6 as stated: at most one deployment transaction is ever submitted on
\* behalf of one record.
C6_AtMostOneDeploymentPerRecord ==
    \A o \in Oids : Cardinality(DeploymentsFor(o)) <= 1

\* C6 as amended: every deployment transaction was submitted by an
\* invocation whose lookup read contractGenerated = false for that record,
\* and no invocation submits more than one.
C6_OneDeploymentPerFreshLookup ==
    \A i \in DOMAIN chain :
        LET q == chain[i].by
        IN  /\ reqs[q].lookup = "fresh"
            /\ reqs[q].oid = chain[i].oid
            /\ reqs[q].deployCalls = 1
            /\ \A j \in DOMAIN chain : chain[j].by = q => j = i

\* Two invocations have each submitted a deployment for the same record.
C6_Witness ==
    \E o \in Oids : Cardinality(DeploymentsFor(o)) = 2

\* C7: the stages an invocation has started are an initial part of prompt,
\* generate, transform, compile, deploy, write; transform is started only
\* after generation succeeded, deploy only after compilation succeeded,
\* the write only after the deployment was confirmed; a failed stage is the
\* last one started, and an invocation that failed has written nothing.
C7_StagesInOrder ==
    \A q \in Reqs :
        LET r == reqs[q]
        IN  /\ IsPrefix(r.stages, StageOrder)
            /\ Started(r, "transform") => r.error \notin GenerationErrors
            /\ Started(r, "deploy") => r.error \notin CompilationErrors
            /\ Started(r, "write") =>
                  /\ r.tx \in DOMAIN chain
                  /\ chain[r.tx].state = "confirmed"
                  /\ r.error \notin DeploymentErrors
            /\ r.error \in GenerationErrors => Len(r.stages) = 2
            /\ r.error \in CompilationErrors => Len(r.stages) = 4
            /\ r.error \in DeploymentErrors => Len(r.stages) = 5
            /\ r.status = 500 => r.saved = NoWrite

\* One invocation ran every stage and wrote, another stopped at a failed
\* compilation.
C7_Witness ==
    \E q, p \in Reqs :
        /\ reqs[q].stages = StageOrder /\ reqs[q].saved # NoWrite
        /\ reqs[p].error \in CompilationErrors /\ reqs[p].status = 500

\* C8: the write-back precedes the response: an invocation about to answer,
\* or that has answered 200, has written contractGenerated = true, and the
\* address and source of the 200 body are the ones it wrote.
C8_WriteBeforeResponse ==
    \A q \in Reqs :
        LET r == reqs[q]
        IN  /\ r.pc = "respond" => r.saved # NoWrite
            /\ r.status = 200 =>
                  /\ r.saved # NoWrite
                  /\ r.saved.contractGenerated = TRUE
                  /\ r.body = [contractAddress |-> r.saved.contractAddress,
                               contractSource |-> r.saved.contractSource]

\* A 200 response whose body carries a deployed address and a source.
C8_Witness ==
    \E q \in Reqs :
        /\ reqs[q].status = 200
        /\ reqs[q].body # NoBody
        /\ reqs[q].body.contractAddress # NoAddress
        /\ reqs[q].body.contractSource # Empty

C10_OneStatusByOutcome ==
    \A q \in Reqs :
        LET r == reqs[q]
        IN  /\ r.responses = (IF r.pc = "done" THEN 1 ELSE 0)
            /\ r.pc # "done" => r.status = 0
            /\ r.pc = "done" =>
                  /\ r.status \in {200, 400, 404, 500}
                  /\ r.status = 404 <=> r.lookup = "miss"
                  /\ r.status = 400 <=> r.lookup = "generated"
                  /\ r.status = 500 <=> r.error # ""
                  /\ r.status = 200 <=>
                        (r.stages = StageOrder /\ r.saved # NoWrite)
                  /\ r.status = 200 <=> r.body # NoBody
                  /\ r.status = 500 => r.lookup \in {"error", "fresh"}

\* Two invocations that ended with different statuses, one of them 500
\* after a stage failure.
C10_Witness ==
    \E q, p \in Reqs :
        /\ reqs[q].status = 500 /\ reqs[q].lookup = "fresh"
        /\ reqs[p].status \in {200, 400, 404}

\* The deployment transactions invocation q submitted.
SubmittedBy(q, txs) == {i \in DOMAIN txs : txs[i].by = q}

\* C11: an invocation posts at most one request to the completion endpoint,
\* asks for at most one compilation and submits at most one deployment
\* transaction; no stage is started twice; the step in which a stage fails
\* ends the invocation with status 500, and an invocation that has ended
\* does nothing more.
C11_NothingRetried ==
    [][\A q \in Reqs :
          LET r == reqs[q]
              n == reqs'[q]
          IN  /\ n.llmCalls <= 1 /\ n.compileCalls <= 1 /\ n.deployCalls <= 1
              /\ Cardinality(SubmittedBy(q, chain')) <= 1
              /\ \A i, j \in 1..Len(n.stages) :
                    n.stages[i] = n.stages[j] => i = j
              /\ (r.error = "" /\ n.error # "") =>
                    /\ n.pc = "done" /\ n.status = 500
                    /\ n.llmCalls <= r.llmCalls + 1
                    /\ n.compileCalls <= r.compileCalls + 1
                    /\ n.deployCalls <= r.deployCalls + 1
              /\ r.pc = "done" =>
                    (n = r /\ SubmittedBy(q, chain') = SubmittedBy(q, chain))]_vars

\* One invocation failed in generation after its one request, another in
\* the confirmation of the one transaction it submitted.
C11_Witness ==
    \E q, p \in Reqs :
        /\ reqs[q].status = 500 /\ reqs[q].error \in GenerationErrors
        /\ reqs[q].llmCalls = 1 /\ reqs[q].compileCalls = 0
        /\ reqs[p].status = 500 /\ reqs[p].error \in DeploymentErrors
        /\ reqs[p].llmCalls = 1 /\ reqs[p].compileCalls = 1
        /\ reqs[p].deployCalls = 1
        /\ Cardinality(SubmittedBy(p, chain)) = 1

\* Address a is the address of a confirmed transaction that q submitted.
DeployedBy(q, a, txs) ==
    /\ a \in DOMAIN txs
    /\ txs[a].by = q
    /\ txs[a].state = "confirmed"

\* C14: the deployer returns an address only in the step in which the
\* transaction it had submitted earlier is confirmed; every address an
\* invocation holds, writes or answers is that of a confirmed transaction
\* it submitted, and while its transaction is not submitted or still
\* pending it holds no address.
C14_SubmitConfirmThenAddress ==
    [][\A q \in Reqs :
          LET r == reqs[q]
              n == reqs'[q]
          IN  /\ (r.contractAddress = NoAddress
                      /\ n.contractAddress # NoAddress) =>
                    /\ r.pc = "confirm"
                    /\ r.tx \in DOMAIN chain
                    /\ chain[r.tx].by = q
                    /\ chain[r.tx].state = "pending"
                    /\ chain'[r.tx].state = "confirmed"
                    /\ n.contractAddress = r.tx
              /\ n.contractAddress # NoAddress =>
                    DeployedBy(q, n.contractAddress, chain')
              /\ n.saved # NoWrite =>
                    DeployedBy(q, n.saved.contractAddress, chain')
              /\ n.body # NoBody =>
                    DeployedBy(q, n.body.contractAddress, chain')
              /\ n.pc \in {"idle", "generate", "compile", "deploy", "confirm"} =>
                    n.contractAddress = NoAddress
              /\ n.pc = "confirm" =>
                    (n.tx \in DOMAIN chain' /\ chain'[n.tx].state = "pending")]_vars

\* One invocation holds the address of its confirmed transaction while
\* another, whose transaction is still pending, holds none.
C14_Witness ==
    \E q, p \in Reqs :
        /\ reqs[q].pc = "save"
        /\ reqs[q].contractAddress # NoAddress
        /\ DeployedBy(q, reqs[q].contractAddress, chain)
        /\ reqs[p].pc = "confirm"
        /\ chain[reqs[p].tx].state = "pending"
        /\ reqs[p].contractAddress = NoAddress

\* The cause an error value carries: Error('Failed to deploy contract') has
\* none, an error of the library that went through unwrapped is the cause.
CauseCarried(error) ==
    IF error = "Failed to deploy contract" THEN "none" ELSE error

\* C15: an invocation whose deployment failed received a "deployment
\* failed" error that carries the cause, which tells a failed submission
\* from a failed confirmation.
C15_DeployFailureKindAndCause ==
    \A q \in Reqs :
        LET r == reqs[q]
        IN  r.error \in DeploymentErrors =>
              /\ r.error = "Failed to deploy contract"
              /\ CauseCarried(r.error)
                    = (IF SubmittedBy(q, chain) = {} THEN "submit" ELSE "confirm")

\* C20: a record, in the state the insert leaves it in, has
\* contractGenerated = false, an empty contractSource and an empty
\* contractAddress, whatever the body held.
C20_CreatedWithDefaults ==
    [][\A o \in Oids :
          (store[o] = NoDoc /\ store'[o] # NoDoc) =>
              /\ store'[o].contractGenerated = FALSE
              /\ store'[o].contractSource = Empty
              /\ store'[o].contractAddress = NoAddress]_vars

\* The stored records whose identifier is id.
WithId(id, docs) == {o \in Oids : docs[o] # NoDoc /\ docs[o].id = id}

\* C21: no two stored records have the same identifier.
C21_IdentifiersUnique ==
    \A o, p \in Oids :
        (Present(o) /\ Present(p) /\ store[o].id = store[p].id) => o = p

\* C25: a step of deleteRecord(id) leaves no record with that identifier
\* and leaves every record with another identifier as it was.
C25_DeleteRemovesIdentifier ==
    [][\A id \in UserIds :
          deleteRecord(id) =>
              /\ WithId(id, store') = {}
              /\ \A o \in Oids :
                    (Present(o) /\ store[o].id # id) => store'[o] = store[o]]_vars

\* C30: a step of updateRecord(id, partial) changes at most one record, one
\* whose identifier is id; on it the fields partial names take partial's
\* values and every other field stays; no record appears or disappears,
\* and without a record of that identifier the store stays as it is.
C30_UpdateFrame ==
    [][\A id \in UserIds, partial \in Partials :
          updateRecord(id, partial) =>
              LET changed == {o \in Oids : store'[o] # store[o]}
              IN  /\ changed \subseteq WithId(id, store)
                  /\ Cardinality(changed) <= 1
                  /\ WithId(id, store) = {} => store' = store
                  /\ \A o \in Oids : (store'[o] = NoDoc) <=> (store[o] = NoDoc)
                  /\ \A o \in changed :
                        \A f \in Fields :
                            store'[o][f] = (IF f \in DOMAIN partial
                                            THEN partial[f] ELSE store[o][f])]_vars

\* A record created with contractGenerated = true was updated to false and
\* kept its name, next to a record with another identifier.
C30_Witness ==
    \E o, p \in Oids :
        /\ Present(o) /\ Present(p)
        /\ store[o].id = "a" /\ store[o].name = <<"B">>
        /\ store[o].contractGenerated = FALSE
        /\ store[p].id = "b" /\ store[p].contractSource = <<"x">>

Writers(o) == {q \in Reqs : reqs[q].oid = o /\ reqs[q].saved # NoWrite}

\* C26: every step of an invocation that changes the stored source or the
\* stored address of a record writes both from one run: the address of the
\* transaction that run submitted, and the source whose first contract's
\* bytecode that transaction carries, with contractGenerated = true.
C26_SourceAndAddressOfOneRun ==
    [][\A q \in Reqs, o \in Oids :
          (reqs'[q] # reqs[q] /\ store[o] # NoDoc /\ store'[o] # NoDoc
              /\ (store'[o].contractSource # store[o].contractSource
                    \/ store'[o].contractAddress # store[o].contractAddress)) =>
              LET d == store'[o]
              IN  /\ d.contractGenerated
                  /\ d.contractAddress \in DOMAIN chain
                  /\ chain[d.contractAddress].by = q
                  /\ chain[d.contractAddress].oid = o
                  /\ chain[d.contractAddress].code
                        = Contract(d.contractSource, 1).bytecode]_vars

\* Two runs with different sources have both written back to one record;
\* the record holds the pair of one of them.
C26_Witness ==
    \E o \in Oids, q, p \in Reqs :
        /\ q # p /\ {q, p} \subseteq Writers(o)
        /\ reqs[q].saved.contractSource # reqs[p].saved.contractSource
        /\ reqs[q].saved.contractAddress # reqs[p].saved.contractAddress
        /\ Present(o)
        /\ store[o].contractSource = reqs[p].saved.contractSource
        /\ store[o].contractAddress = reqs[p].saved.contractAddress

\* C27: the text generation returns (the endpoint's text trimmed, then
\* transformed) stays the invocation's source to its end; it is the text
\* the compiled contract was compiled from, and the write-back stores it
\* next to the address of the transaction that carries that contract.
C27_StoredSourceIsCompiledSource ==
    [][\A q \in Reqs :
          LET r == reqs[q]
              n == reqs'[q]
          IN  /\ (r.pc = "generate" /\ n.pc = "compile") =>
                    n.contractSource \in Sources
              /\ (r.pc \in {"compile", "deploy", "confirm", "save"}
                      /\ n.pc # "done") =>
                    n.contractSource = r.contractSource
              /\ n.compiled # NoContract =>
                    n.compiled.bytecode.of = n.contractSource
              /\ (r.pc = "save" /\ n.pc = "respond") =>
                    /\ store'[r.oid].contractSource = r.contractSource
                    /\ chain[store'[r.oid].contractAddress].code.of
                          = r.contractSource]_vars

\* A stored record whose source is the trimmed and reversed text of the
\* endpoint and whose address is that of a transaction compiled from it.
C27_Witness ==
    \E o \in Oids :
        /\ Present(o)
        /\ store[o].contractSource = obfuscateCode(Trim(<<" ", "a", "b">>))
        /\ store[o].contractAddress \in DOMAIN chain
        /\ chain[store[o].contractAddress].state = "confirmed"
        /\ chain[store[o].contractAddress].code.of = store[o].contractSource

\* C23: nothing holds back the second of two invocations on one record: an
\* invocation that has compiled can always submit its transaction, whatever
\* the other invocations have read, submitted or written.
C23_SubmissionNeverHeldBack ==
    \A q \in Reqs : reqs[q].pc = "deploy" => ENABLED DeploySubmit(q)

\* Two invocations on one record both read contractGenerated = false, both
\* submitted, both transactions are confirmed, and neither has written
\* back yet: two contracts are deployed for the one record.
C23_Witness ==
    \E q, p \in Reqs :
        /\ q # p /\ reqs[q].oid = reqs[p].oid
        /\ reqs[q].lookup = "fresh" /\ reqs[p].lookup = "fresh"
        /\ reqs[q].pc = "save" /\ reqs[p].pc = "save"
        /\ reqs[q].tx # reqs[p].tx
        /\ DeployedBy(q, reqs[q].tx, chain)
        /\ DeployedBy(p, reqs[p].tx, chain)
        /\ Present(reqs[q].oid)
        /\ ~store[reqs[q].oid].contractGenerated

\* C24: an invocation waiting for the confirmation has sent no response and
\* written nothing, and it leaves the wait only in a step in which the
\* network settles its transaction: while the transaction stays pending
\* the invocation stays where it is.
C24_WaitEndsOnlyWhenSettled ==
    [][\A q \in Reqs :
          LET r == reqs[q]
              n == reqs'[q]
          IN  r.pc = "confirm" =>
                /\ r.responses = 0 /\ r.status = 0 /\ r.saved = NoWrite
                /\ n # r => chain'[r.tx].state # "pending"
                /\ chain'[r.tx].state = "pending" =>
                      (n.pc = "confirm" /\ n.responses = 0
                          /\ n.saved = NoWrite)]_vars

\* While one invocation still waits for its transaction, another one that
\* submitted later has been served to the end.
C24_Witness ==
    \E q, p \in Reqs :
        /\ reqs[q].pc = "confirm"
        /\ chain[reqs[q].tx].state = "pending"
        /\ reqs[p].status = 200
        /\ reqs[p].tx > reqs[q].tx

\* The one-to-one assignments of the positions of a list to the stored
\* records.
Assignments(list, docs) ==
    {f \in [DOMAIN list -> {o \in Oids : docs[o] # NoDoc}] :
        /\ \A i, j \in DOMAIN list : f[i] = f[j] => i = j
        /\ \A o \in Oids : docs[o] # NoDoc => \E i \in DOMAIN list : f[i] = o}

\* C22: the array GET /duna answers with 200 holds one entry per stored
\* record, the stored document itself; the array getRecords returns holds
\* one entry per stored record, with the record's id and name; so a record
\* that was created and not deleted is in both.
C22_ListHoldsEveryRecordOnce ==
    [][(call' # call /\ call'.fn \in {"GET /duna", "getRecords"}
            /\ call'.pc \in {"answered", "returned"} /\ call'.status # 500) =>
          \E f \in Assignments(call'.result, store') :
              \A i \in DOMAIN call'.result :
                  IF call'.fn = "GET /duna"
                  THEN /\ call'.status = 200
                       /\ call'.result[i].fields = store'[f[i]]
                  ELSE /\ call'.result[i].id = store'[f[i]].id
                       /\ call'.result[i].name = store'[f[i]].name]_vars

\* GET /duna was answered with the two records created before it, one of
\* them created with a pipeline-state field set.
C22_Witness ==
    /\ call.fn = "GET /duna"
    /\ call.pc = "answered" /\ call.status = 200
    /\ Len(call.result) = 2
    /\ call.result[1].fields.id = "a"
    /\ call.result[2].fields.id = "b"
    /\ call.result[2].fields.contractSource = <<"x">>

\* C29: every request to GET /duna and POST /duna that is awaiting its
\* storage call is answered in the end, once.
C29_EveryRequestAnswered ==
    Awaiting(HttpRoutes)
        ~> (IF call = NoCall THEN FALSE
            ELSE call.pc = "answered" /\ call.responses = 1)

\* Unicode: a high surrogate followed by a low one is one code point, any
\* other code unit is one code point by itself.
RECURSIVE CodePoints(_)
CodePoints(s) ==
    IF s = <<>> THEN 0
    ELSE IF Head(s) = "H" /\ Len(s) >= 2 /\ s[2] = "L"
         THEN 1 + CodePoints(Tail(Tail(s)))
         ELSE 1 + CodePoints(Tail(s))

\* Valid text: every surrogate is half of a pair.
RECURSIVE WellFormed(_)
WellFormed(s) ==
    IF s = <<>> THEN TRUE
    ELSE IF Head(s) = "H"
         THEN Len(s) >= 2 /\ s[2] = "L" /\ WellFormed(Tail(Tail(s)))
         ELSE Head(s) # "L" /\ WellFormed(Tail(s))

\* C17: obfuscateCode applied to its own result gives back the text it was
\* first given, code unit for code unit, whatever the text holds.
C17_ObfuscateTwiceIsIdentity ==
    (call.fn = "obfuscateCode" /\ call.times = 2) => call.result = call.arg

\* A text with a two-byte character and a surrogate pair, not a palindrome,
\* came back after two applications.
C17_Witness ==
    /\ call.fn = "obfuscateCode" /\ call.times = 2
    /\ call.arg = <<"E", "H", "L">>
    /\ call.result = call.arg
    /\ obfuscateCode(call.arg) # call.arg

\* C18: one application of obfuscateCode to valid text gives valid text of
\* as many code points.
C18_CodePointsKept ==
    (call.fn = "obfuscateCode" /\ call.times = 1 /\ WellFormed(call.arg)) =>
        /\ CodePoints(call.result) = CodePoints(call.arg)
        /\ WellFormed(call.result)

Contains(t, sub) ==
    \E i \in 0..(Len(t) - Len(sub)) : SubSeq(t, i + 1, i + Len(sub)) = sub

\* The code units of the alphabet that are neither letters nor digits.
NonAlphanumeric == {" ", "-"}

\* C19: the contract name in the prompt holds no non-alphanumeric character
\* of the record name (each is replaced, a space by an underscore), and for
\* the name "Alpha Co" it holds "Alpha_Co".
C19_ContractNameAlphanumeric ==
    call.fn = "prompt" =>
        /\ \A i \in 1..Len(call.result) : call.result[i] \notin NonAlphanumeric
        /\ call.arg = AlphaCo =>
              Contains(call.result, <<"A", "l", "p", "h", "a", "_", "C", "o">>)

\* The diagnostics a failed compilation makes known: attached to the error
\* or written to the log.
Reported(c) == c.attached \o c.logged

\* C12: the compilation fails exactly when the compiler's diagnostics hold
\* an entry of error severity, and the failure then reports exactly the
\* entries of error severity.
C12_FailsExactlyOnErrors ==
    call.fn = "compile" =>
        LET errors == ErrorsOf(call.arg.errors)
        IN  /\ ~call.result.ok <=> errors # <<>>
            /\ ~call.result.ok => Reported(call.result) = errors

\* C13: a compilation without error diagnostics and without any contract
\* fails as a compilation failure, not on the lookup of the first contract.
C13_ZeroContractsIsCompilationFailure ==
    (call.fn = "compile" /\ ErrorsOf(call.arg.errors) = <<>>
        /\ call.arg.contracts = <<>>) =>
        /\ ~call.result.ok
        /\ call.result.error = "Contract compilation failed"

GenerationClients == {"generateContractSource", "generateSolidityCode"}

\* C16: a generation client succeeds exactly when the response was 2xx and
\* carried the text, then returning a text; every failure reaches the
\* caller as the one generation error.
C16_OneGenerationErrorKind ==
    call.fn \in GenerationClients =>
        /\ call.result.ok <=>
              (call.arg.kind = "2xx" /\ call.arg.shape = "text")
        /\ call.result.ok => call.result.defined
        /\ ~call.result.ok => call.result.error \in GenerationErrors

====
